---- MODULE Spec2Model ----
(***************************************************************************)
(* Risk-scoring pipeline of bloom-housing: the Feature Encoder             *)
(* (mapDtoToModelInput in its three revisions, mapDtoToModelFeatures), the *)
(* Integration Client (getModelPrediction) and the Scoring Service it      *)
(* calls.                                                                  *)
(*                                                                         *)
(* JavaScript values are records [t, n, s]: t is the type tag, n the       *)
(* number (fixed point, in hundredths: Scale = 100) or the boolean (0/1),  *)
(* s the string as a sequence of one-character strings.                    *)
(***************************************************************************)
EXTENDS Integers, Sequences, FiniteSets, TLC

\* Numbers are kept in hundredths: 12.5 is 1250.
Scale == 10 * 10

----------------------------------------------------------------------------
(* JavaScript values *)

Undef == [t |-> "undefined", n |-> 0, s |-> <<>>]
Null == [t |-> "null", n |-> 0, s |-> <<>>]
NaN == [t |-> "NaN", n |-> 0, s |-> <<>>]
Num(k) == [t |-> "number", n |-> k, s |-> <<>>]
Whole(k) == Num(k * Scale)
Str(cs) == [t |-> "string", n |-> 0, s |-> cs]
Bool(b) == [t |-> "boolean", n |-> IF b THEN 1 ELSE 0, s |-> <<>>]
JsTrue == Bool(TRUE)
JsFalse == Bool(FALSE)

\* typeof v === 'string', typeof v === 'boolean'
IsString(v) == v.t = "string"
IsBoolean(v) == v.t = "boolean"

\* !!v
Truthy(v) ==
  CASE v.t = "undefined" -> FALSE
    [] v.t = "null" -> FALSE
    [] v.t = "NaN" -> FALSE
    [] v.t = "number" -> v.n # 0
    [] v.t = "string" -> v.s # <<>>
    [] v.t = "boolean" -> v.n = 1
    [] v.t = "array" -> TRUE

\* v === true
IsTrue(v) == v.t = "boolean" /\ v.n = 1

----------------------------------------------------------------------------
(* Strings *)

DigitChars == <<"0", "1", "2", "3", "4", "5", "6", "7", "8", "9">>
UpperChars == <<"A", "B", "C", "D", "E", "F", "G", "H", "I", "J", "K", "L", "M",
                "N", "O", "P", "Q", "R", "S", "T", "U", "V", "W", "X", "Y", "Z">>
LowerChars == <<"a", "b", "c", "d", "e", "f", "g", "h", "i", "j", "k", "l", "m",
                "n", "o", "p", "q", "r", "s", "t", "u", "v", "w", "x", "y", "z">>

IsDigit(c) == \E i \in DOMAIN DigitChars : DigitChars[i] = c
DigitVal(c) == (CHOOSE i \in DOMAIN DigitChars : DigitChars[i] = c) - 1

ToLowerChar(c) ==
  IF \E i \in DOMAIN UpperChars : UpperChars[i] = c
  THEN LowerChars[CHOOSE i \in DOMAIN UpperChars : UpperChars[i] = c]
  ELSE c

\* s.toLowerCase()
ToLowerCase(cs) == [i \in DOMAIN cs |-> ToLowerChar(cs[i])]

\* s.includes(sub)
Includes(cs, sub) ==
  \E i \in 0..(Len(cs) - Len(sub)) :
    \A j \in 1..Len(sub) : cs[i + j] = sub[j]

\* s.replace(/[^0-9.]/g, '')
StripNonNumeric(cs) == SelectSeq(cs, LAMBDA c : IsDigit(c) \/ c = ".")

RECURSIVE DigitsVal(_)
DigitsVal(ds) ==
  IF ds = <<>> THEN 0
  ELSE DigitsVal(SubSeq(ds, 1, Len(ds) - 1)) * 10 + DigitVal(ds[Len(ds)])

\* The value, in hundredths, of the fraction digits fs (the digits after the
\* second are below the model's resolution).
FractionVal(fs) ==
  LET d(i) == IF i <= Len(fs) THEN DigitVal(fs[i]) ELSE 0
  IN  d(1) * 10 + d(2)

AllDigits(cs) == \A i \in DOMAIN cs : IsDigit(cs[i])

\* The StringNumericLiteral grammar over digits and '.': digits, digits '.'
\* digits?, '.' digits. Anything else is NaN.
UnsignedToNumber(cs) ==
  LET dots == {i \in DOMAIN cs : cs[i] = "."}
  IN  IF cs # <<>> /\ AllDigits(cs) THEN Num(DigitsVal(cs) * Scale)
      ELSE IF Cardinality(dots) = 1 /\ Len(cs) > 1
      THEN LET p == CHOOSE i \in dots : TRUE
               ip == SubSeq(cs, 1, p - 1)
               fp == SubSeq(cs, p + 1, Len(cs))
           IN  IF AllDigits(ip) /\ AllDigits(fp)
               THEN Num(DigitsVal(ip) * Scale + FractionVal(fp))
               ELSE NaN
      ELSE NaN

\* Number(s) for a string s: the empty string is 0, a sign may lead.
StringToNumber(cs) ==
  IF cs = <<>> THEN Num(0)
  ELSE IF cs[1] = "-"
  THEN LET u == UnsignedToNumber(Tail(cs))
       IN  IF u.t = "NaN" THEN NaN ELSE Num(0 - u.n)
  ELSE IF cs[1] = "+" THEN UnsignedToNumber(Tail(cs))
  ELSE UnsignedToNumber(cs)

\* parseFloat(s): the longest leading decimal literal, NaN when there is none.
ParseFloat(cs) ==
  LET neg == cs # <<>> /\ cs[1] = "-"
      body == IF cs # <<>> /\ cs[1] \in {"-", "+"} THEN Tail(cs) ELSE cs
      ok(k) == UnsignedToNumber(SubSeq(body, 1, k)).t = "number"
      ks == {k \in 1..Len(body) : ok(k)}
  IN  IF ks = {} THEN NaN
      ELSE LET k == CHOOSE x \in ks : \A y \in ks : y <= x
               u == UnsignedToNumber(SubSeq(body, 1, k))
           IN  IF neg THEN Num(0 - u.n) ELSE u

RECURSIVE NatToDigits(_)
NatToDigits(k) ==
  IF k < 10 THEN <<DigitChars[k + 1]>>
  ELSE NatToDigits(k \div 10) \o <<DigitChars[(k % 10) + 1]>>

\* String(x) for a number x (in hundredths)
NumberToString(k) ==
  LET a == IF k < 0 THEN 0 - k ELSE k
      ip == NatToDigits(a \div Scale)
      f == a % Scale
      fp == IF f = 0 THEN <<>>
            ELSE IF f % 10 = 0 THEN <<".", DigitChars[(f \div 10) + 1]>>
            ELSE <<".", DigitChars[(f \div 10) + 1], DigitChars[(f % 10) + 1]>>
  IN  (IF k < 0 THEN <<"-">> ELSE <<>>) \o ip \o fp

\* String(v)
JsString(v) ==
  CASE v.t = "string" -> v.s
    [] v.t = "number" -> NumberToString(v.n)
    [] v.t = "NaN" -> <<"N", "a", "N">>
    [] v.t = "boolean" -> IF v.n = 1 THEN <<"t", "r", "u", "e">>
                          ELSE <<"f", "a", "l", "s", "e">>
    [] v.t = "null" -> <<"n", "u", "l", "l">>
    [] v.t = "undefined" -> <<"u", "n", "d", "e", "f", "i", "n", "e", "d">>

\* Number(v)
ToNumber(v) ==
  CASE v.t = "string" -> StringToNumber(v.s)
    [] v.t = "number" -> v
    [] v.t = "NaN" -> NaN
    [] v.t = "boolean" -> Num(v.n * Scale)
    [] v.t = "null" -> Num(0)
    [] v.t = "undefined" -> NaN

\* a - b, a * b, Math.max(a, b): NaN when an operand is NaN
Minus(a, b) == IF a.t = "NaN" \/ b.t = "NaN" THEN NaN ELSE Num(a.n - b.n)
Times(a, b) == IF a.t = "NaN" \/ b.t = "NaN" THEN NaN ELSE Num((a.n * b.n) \div Scale)
MathMax(a, b) ==
  IF a.t = "NaN" \/ b.t = "NaN" THEN NaN
  ELSE IF a.n >= b.n THEN a ELSE b

\* a || b
OrElse(a, b) == IF Truthy(a) THEN a ELSE b

----------------------------------------------------------------------------
(* Outcomes of a callback or a call: a value, or a thrown TypeError *)

Returned(v) == [threw |-> FALSE, value |-> v]
Thrown == [threw |-> TRUE, value |-> Undef]

\* Array.prototype.some over the callback's outcomes rs, each "true", "false"
\* or "throw": it stops at the first element that is true or that throws.
RECURSIVE Some(_)
Some(rs) ==
  IF rs = <<>> THEN "false"
  ELSE IF Head(rs) = "false" THEN Some(Tail(rs))
  ELSE Head(rs)

Verdict(b) == IF b THEN "true" ELSE "false"

\* Words the encoder compares with
WordVeteran == <<"v", "e", "t", "e", "r", "a", "n">>
WordYes == <<"y", "e", "s">>
WordNo == <<"n", "o">>
WordPerMonth == <<"p", "e", "r", "M", "o", "n", "t", "h">>
WordPerYear == <<"p", "e", "r", "Y", "e", "a", "r">>
AssistancePrograms ==
  << <<"s", "n", "a", "p">>,
     <<"s", "e", "c", "t", "i", "o", "n", " ", "8">>,
     <<"a", "s", "s", "i", "s", "t", "a", "n", "c", "e">> >>

\* x.key of a program or option x: undefined on a primitive
KeyOf(x) == IF x.kind = "object" THEN x.key ELSE Undef
ClaimedOf(x) == IF x.kind = "object" THEN x.claimed ELSE Undef
CheckedOf(x) == IF x.kind = "object" THEN x.checked ELSE Undef

----------------------------------------------------------------------------
(* mapDtoToModelInput, src/api/src/utilities/model.helper.ts *)

\* age: dto.applicant?.birthYear ? Math.max(currentYear - Number(birthYear), 18) : 30
BirthYearOf(dto) == IF dto.applicant.present THEN dto.applicant.birthYear ELSE Undef

DefaultAge == 30
MinAge == 18

\* An encoder whose default age is the minimum age.
AgeDefaultMin(dto, year) ==
  IF Truthy(BirthYearOf(dto))
  THEN MathMax(Minus(Whole(year), ToNumber(BirthYearOf(dto))), Whole(MinAge))
  ELSE Whole(MinAge)

\* An encoder that falls back to the default age below the minimum age.
AgeDefaultBelowMin(dto, year) ==
  LET years == Minus(Whole(year), ToNumber(BirthYearOf(dto)))
  IN  IF Truthy(BirthYearOf(dto)) /\ years.t = "number" /\ years.n >= MinAge * Scale
      THEN years
      ELSE Whole(DefaultAge)

Age(dto, year) ==
  IF Truthy(BirthYearOf(dto))
  THEN MathMax(Minus(Whole(year), ToNumber(BirthYearOf(dto))), Whole(MinAge))
  ELSE Whole(DefaultAge)

\* num_people: dto.householdMember ? 1 + dto.householdMember.length : 1
NumPeople(dto) ==
  CASE dto.householdMember.kind = "undefined" -> Whole(1)
    [] dto.householdMember.kind = "array" ->
         Whole(1 + Len(dto.householdMember.members))
    [] OTHER -> NaN

\* disabled: !!(accessibility?.mobility || accessibility?.vision || accessibility?.hearing)
\* An encoder that forgets the hearing flag.
DisabledWithoutHearing(dto) ==
  /\ dto.accessibility.present
  /\ \/ Truthy(dto.accessibility.mobility)
     \/ Truthy(dto.accessibility.vision)

Disabled(dto) ==
  /\ dto.accessibility.present
  /\ \/ Truthy(dto.accessibility.mobility)
     \/ Truthy(dto.accessibility.vision)
     \/ Truthy(dto.accessibility.hearing)

\* The callback of options.some: typeof option.key === 'string' &&
\* option.key.toLowerCase() === word && option.checked === true. Reading .key
\* of null throws.
OptionIs(option, word) ==
  IF option.kind = "null" THEN "throw"
  ELSE Verdict(/\ IsString(KeyOf(option))
               /\ ToLowerCase(KeyOf(option).s) = word
               /\ IsTrue(CheckedOf(option)))

HasOption(options, word) ==
  Some([i \in DOMAIN options |-> OptionIs(options[i], word)])

\* The callback of dto.programs.some
VeteranStatus(program) ==
  IF program.kind # "object" THEN "false"
  ELSE IF ~IsString(program.key) \/ ~IsBoolean(program.claimed) THEN "false"
  ELSE IF ~(/\ Includes(ToLowerCase(program.key.s), WordVeteran)
            /\ IsTrue(program.claimed)) THEN "false"
  ELSE LET options == IF program.options.kind = "array"
                      THEN program.options.items ELSE <<>>
           hasYes == HasOption(options, WordYes)
           hasNo == HasOption(options, WordNo)
       IN  IF hasYes = "throw" \/ hasNo = "throw" THEN "throw"
           ELSE Verdict(hasYes = "true" /\ hasNo = "false")

Veteran(dto) ==
  IF dto.programs.kind = "array"
  THEN Some([i \in DOMAIN dto.programs.entries |->
               VeteranStatus(dto.programs.entries[i])])
  ELSE "false"

\* income: dto.income ? Number(String(dto.income).replace(/[^0-9.]/g, '')) || 0 : 0
ParsedIncome(dto) ==
  IF Truthy(dto.income)
  THEN OrElse(StringToNumber(StripNonNumeric(JsString(dto.income))), Num(0))
  ELSE Num(0)

Months == 12

\* if (dto.incomePeriod === 'perMonth') income *= 12
Income(dto) ==
  IF dto.incomePeriod = Str(WordPerMonth)
  THEN Times(ParsedIncome(dto), Whole(Months))
  ELSE ParsedIncome(dto)

mapDtoToModelInput(dto, year) ==
  IF Veteran(dto) = "throw" THEN Thrown
  ELSE Returned([age |-> Age(dto, year),
                 income |-> Income(dto),
                 veteran |-> Bool(Veteran(dto) = "true"),
                 benefits |-> Bool(Truthy(dto.incomeVouchers)),
                 num_people |-> NumPeople(dto),
                 disabled |-> Bool(Disabled(dto))])

----------------------------------------------------------------------------
(* mapDtoToModelInput, the adult_kids revisions: src/unnamed/part_007 and   *)
(* src/unnamed/part_008                                                     *)

\* a >= b, a <= b on numbers: false when an operand is NaN
Geq(a, b) == a.t = "number" /\ b.t = "number" /\ a.n >= b.n
Leq(a, b) == a.t = "number" /\ b.t = "number" /\ a.n <= b.n

\* threshold: number = 0.5, the default of an argument left out
DefaultThreshold == Scale \div 2
\* An encoder whose default threshold is 0.4.
ThresholdParamLow(arg) == IF arg = Undef THEN Num(40) ELSE arg

ThresholdParam(arg) == IF arg = Undef THEN Num(DefaultThreshold) ELSE arg

\* Array.prototype.filter(...).length over the callback's outcomes: every
\* element is visited, and a throwing callback aborts the filter.
FilterCount(rs) ==
  IF \E i \in DOMAIN rs : rs[i] = "throw" THEN Thrown
  ELSE Returned(Whole(Cardinality({i \in DOMAIN rs : rs[i] = "true"})))

MaxKidAge == 21

\* part_007: member.birthYear && currentYear - Number(member.birthYear) >= 18
\*           && currentYear - Number(member.birthYear) <= 21
IsAdultKid007(member, year) ==
  IF member.kind = "null" THEN "throw"
  ELSE Verdict(/\ Truthy(member.birthYear)
               /\ Geq(Minus(Whole(year), ToNumber(member.birthYear)), Whole(MinAge))
               /\ Leq(Minus(Whole(year), ToNumber(member.birthYear)), Whole(MaxKidAge)))

\* part_008: member.birthYear && currentYear - Number(member.birthYear) >= 18
\*           && Number(member.birthYear) <= 21
IsAdultKid008(member, year) ==
  IF member.kind = "null" THEN "throw"
  ELSE Verdict(/\ Truthy(member.birthYear)
               /\ Geq(Minus(Whole(year), ToNumber(member.birthYear)), Whole(MinAge))
               /\ Leq(ToNumber(member.birthYear), Whole(MaxKidAge)))

\* dto.householdMember ? dto.householdMember.filter(...).length : 0
AdultKids007(dto, year) ==
  CASE dto.householdMember.kind = "undefined" -> Returned(Whole(0))
    [] dto.householdMember.kind = "array" ->
         FilterCount([i \in DOMAIN dto.householdMember.members |->
                        IsAdultKid007(dto.householdMember.members[i], year)])
    [] OTHER -> Thrown

AdultKids008(dto, year) ==
  CASE dto.householdMember.kind = "undefined" -> Returned(Whole(0))
    [] dto.householdMember.kind = "array" ->
         FilterCount([i \in DOMAIN dto.householdMember.members |->
                        IsAdultKid008(dto.householdMember.members[i], year)])
    [] OTHER -> Thrown

\* part_007: typeof program.key === 'string' &&
\*           program.key.toLowerCase().includes('veteran') && program.claimed === true
VeteranStatus007(program) ==
  IF program.kind = "null" THEN "throw"
  ELSE Verdict(/\ IsString(KeyOf(program))
               /\ Includes(ToLowerCase(KeyOf(program).s), WordVeteran)
               /\ IsTrue(ClaimedOf(program)))

Veteran007(dto) ==
  IF dto.programs.kind = "array"
  THEN Some([i \in DOMAIN dto.programs.entries |->
               VeteranStatus007(dto.programs.entries[i])])
  ELSE "false"

\* part_008: program.key?.toLowerCase() === 'veteran' && program.claimed.
\* toLowerCase is no function of a key that is neither nullish nor a string.
VeteranStatus008(program) ==
  IF program.kind = "null" THEN "throw"
  ELSE IF KeyOf(program).t \in {"undefined", "null"} THEN "false"
  ELSE IF ~IsString(KeyOf(program)) THEN "throw"
  ELSE Verdict(/\ ToLowerCase(KeyOf(program).s) = WordVeteran
               /\ Truthy(ClaimedOf(program)))

Veteran008(dto) ==
  IF dto.programs.kind = "array"
  THEN Some([i \in DOMAIN dto.programs.entries |->
               VeteranStatus008(dto.programs.entries[i])])
  ELSE "false"

\* part_008: program.key?.toLowerCase() &&
\*   assistancePrograms.some((ap) => program.key.toLowerCase().includes(ap))
\*   && program.claimed
IsAssistance008(program) ==
  IF program.kind = "null" THEN "throw"
  ELSE IF KeyOf(program).t \in {"undefined", "null"} THEN "false"
  ELSE IF ~IsString(KeyOf(program)) THEN "throw"
  ELSE Verdict(/\ KeyOf(program).s # <<>>
               /\ \E i \in DOMAIN AssistancePrograms :
                    Includes(ToLowerCase(KeyOf(program).s), AssistancePrograms[i])
               /\ Truthy(ClaimedOf(program)))

BenefitsFromPrograms008(dto) ==
  IF dto.programs.kind = "array"
  THEN Some([i \in DOMAIN dto.programs.entries |->
               IsAssistance008(dto.programs.entries[i])])
  ELSE "false"

mapDtoToModelInput007(dto, year, threshold) ==
  IF AdultKids007(dto, year).threw \/ Veteran007(dto) = "throw" THEN Thrown
  ELSE Returned([age |-> Age(dto, year),
                 income |-> Income(dto),
                 veteran |-> Bool(Veteran007(dto) = "true"),
                 benefits |-> Bool(Truthy(dto.incomeVouchers)),
                 adult_kids |-> AdultKids007(dto, year).value,
                 disabled |-> Bool(Disabled(dto)),
                 threshold |-> ThresholdParam(threshold)])

mapDtoToModelInput008(dto, year, threshold) ==
  IF \/ AdultKids008(dto, year).threw
     \/ Veteran008(dto) = "throw"
     \/ BenefitsFromPrograms008(dto) = "throw" THEN Thrown
  ELSE Returned([age |-> Age(dto, year),
                 income |-> ParsedIncome(dto),
                 veteran |-> Bool(Veteran008(dto) = "true"),
                 benefits |-> OrElse(dto.incomeVouchers,
                                     Bool(BenefitsFromPrograms008(dto) = "true")),
                 adult_kids |-> AdultKids008(dto, year).value,
                 disabled |-> Bool(Disabled(dto)),
                 threshold |-> ThresholdParam(threshold)])

----------------------------------------------------------------------------
(* mapDtoToModelFeatures, src/api/src/dtos/applications/risk.dto.ts *)

WordHomeless == <<"h", "o", "m", "e", "l", "e", "s", "s">>
WordRenting == <<"r", "e", "n", "t", "i", "n", "g">>
WordOwning == <<"o", "w", "n", "i", "n", "g">>

\* A mapping whose default is the first code.
mapHousingStatusDefaultFirst(status) ==
  CASE status = Str(WordHomeless) -> Whole(0)
    [] status = Str(WordRenting) -> Whole(1)
    [] status = Str(WordOwning) -> Whole(2)
    [] OTHER -> Whole(0)

mapHousingStatus(status) ==
  CASE status = Str(WordHomeless) -> Whole(0)
    [] status = Str(WordRenting) -> Whole(1)
    [] status = Str(WordOwning) -> Whole(2)
    [] OTHER -> Whole(2)

\* parseFloat(dto.income?.replace(/[^0-9.]/g, '')) || 0: replace is no
\* function of an income that is neither nullish nor a string.
\* An encoder that annualizes a monthly income.
FeatureIncomeAnnualized(dto) ==
  LET parsed == OrElse(ParseFloat(StripNonNumeric(dto.income.s)), Num(0))
  IN  IF dto.income.t \in {"undefined", "null"} THEN Returned(Num(0))
      ELSE IF ~IsString(dto.income) THEN Thrown
      ELSE IF dto.incomePeriod = Str(WordPerMonth)
      THEN Returned(Times(parsed, Whole(Months)))
      ELSE Returned(parsed)

FeatureIncome(dto) ==
  IF dto.income.t \in {"undefined", "null"} THEN Returned(Num(0))
  ELSE IF ~IsString(dto.income) THEN Thrown
  ELSE Returned(OrElse(ParseFloat(StripNonNumeric(dto.income.s)), Num(0)))

\* An encoder that sends the flags as booleans.
FlagBoolean(v) == Bool(Truthy(v))

Flag(v) == IF Truthy(v) THEN Whole(1) ELSE Whole(0)

mapDtoToModelFeatures(dto) ==
  IF FeatureIncome(dto).threw THEN Thrown
  ELSE Returned([income |-> FeatureIncome(dto).value,
                 household_size |-> OrElse(dto.householdSize, Whole(1)),
                 housing_status |-> mapHousingStatus(dto.housingStatus),
                 income_vouchers |-> Flag(dto.incomeVouchers),
                 household_expecting_changes |-> Flag(dto.householdExpectingChanges),
                 household_student |-> Flag(dto.householdStudent)])

----------------------------------------------------------------------------
(* The console.warn calls of the encoders *)

Warning(field, index) == [field |-> field, index |-> index]

\* The entries dto.programs.some visits: it stops at the first entry whose
\* callback returns true or throws.
Visited(rs) == {i \in DOMAIN rs : \A j \in 1..(i - 1) : rs[j] = "false"}

\* model.helper.ts: 'Invalid program at index', 'Invalid program key or
\* claimed at index', 'Programs is not an array'
ProgramWarnings(dto) ==
  IF dto.programs.kind # "array" THEN {Warning("programs", 0)}
  ELSE LET es == dto.programs.entries
           rs == [i \in DOMAIN es |-> VeteranStatus(es[i])]
       IN  {Warning("programs", i) :
              i \in {j \in Visited(rs) : \/ es[j].kind # "object"
                                        \/ ~IsString(es[j].key)
                                        \/ ~IsBoolean(es[j].claimed)}}

\* if (!dto.income) console.warn('Using default for missing field: income'),
\* after the record is built
IncomeWarning(dto) == IF Truthy(dto.income) THEN {} ELSE {Warning("income", 0)}

EncodeWarnings(r, d, year) ==
  CASE r = "model.helper" ->
         ProgramWarnings(d)
           \cup (IF Veteran(d) = "throw" THEN {} ELSE IncomeWarning(d))
    [] r = "part_007" ->
         IF mapDtoToModelInput007(d, year, Undef).threw THEN {} ELSE IncomeWarning(d)
    [] r = "part_008" ->
         IF mapDtoToModelInput008(d, year, Undef).threw THEN {} ELSE IncomeWarning(d)
    [] r = "risk.dto" -> {}

----------------------------------------------------------------------------
(* Application records the encoders are applied to *)

\* The first year the clock of the model shows.
FirstYear == 2025
Years == FirstYear..(FirstYear + 1)

\* The longest options list of a program entry.
MaxOptions == 2

YearString(y) == Str(NumberToString(y * Scale))

BirthYears ==
  { Undef, Null, Whole(0), Str(<<>>), Str(<<"a", "b", "c">>),
    Whole(FirstYear - 35), Whole(FirstYear - 17), Whole(FirstYear + 15),
    YearString(FirstYear - 35), YearString(FirstYear - 17) }

Applicants ==
  {[present |-> FALSE, birthYear |-> Undef]}
    \cup {[present |-> TRUE, birthYear |-> b] : b \in BirthYears}

Member(b) == [kind |-> "object", birthYear |-> b]
NullMember == [kind |-> "null", birthYear |-> Undef]

Households ==
  { [kind |-> "undefined", members |-> <<>>],
    [kind |-> "object", members |-> <<>>],
    [kind |-> "array", members |-> <<>>],
    [kind |-> "array", members |-> <<Member(Whole(FirstYear - 20))>>],
    [kind |-> "array", members |-> <<Member(Undef), Member(Whole(FirstYear - 17))>>],
    [kind |-> "array", members |-> <<Member(Whole(20)), Member(Whole(FirstYear - 40))>>],
    [kind |-> "array", members |-> <<Member(Whole(FirstYear - 21)), NullMember>>] }

Accessibilities ==
  {[present |-> FALSE, mobility |-> Undef, vision |-> Undef, hearing |-> Undef]}
    \cup {[present |-> TRUE, mobility |-> m, vision |-> v, hearing |-> h] :
            m \in {JsTrue, Undef}, v \in {JsTrue, JsFalse}, h \in {JsTrue, Null}}

Option(k, c) == [kind |-> "object", key |-> k, checked |-> c]
OptionValues ==
  { Option(Str(<<"y", "e", "s">>), JsTrue),
    Option(Str(<<"n", "o">>), JsTrue),
    Option(Str(<<"Y", "E", "S">>), JsTrue),
    Option(Str(<<"y", "e", "s">>), JsFalse),
    Option(Whole(1), JsTrue),
    [kind |-> "number", key |-> Undef, checked |-> Undef],
    [kind |-> "null", key |-> Undef, checked |-> Undef] }

RECURSIVE SeqsUpTo(_, _)
SeqsUpTo(S, n) ==
  IF n = 0 THEN {<<>>}
  ELSE LET shorter == SeqsUpTo(S, n - 1)
       IN  shorter \cup {Append(q, x) : q \in {r \in shorter : Len(r) = n - 1}, x \in S}

OptionLists ==
  {[kind |-> "undefined", items |-> <<>>]}
    \cup {[kind |-> "array", items |-> q] : q \in SeqsUpTo(OptionValues, MaxOptions)}

Program(k, c, o) == [kind |-> "object", key |-> k, claimed |-> c, options |-> o]
KeyVeteranStatus ==
  Str(<<"V", "e", "t", "e", "r", "a", "n", " ", "S", "t", "a", "t", "u", "s">>)
KeyVETERAN == Str(<<"V", "E", "T", "E", "R", "A", "N">>)
KeySnap == Str(<<"S", "N", "A", "P", " ", "b", "e", "n", "e", "f", "i", "t", "s">>)
KeySection8 == Str(<<"s", "e", "c", "t", "i", "o", "n", "8">>)
YesChecked == [kind |-> "array", items |-> <<Option(Str(<<"y", "e", "s">>), JsTrue)>>]
NoOptions == [kind |-> "undefined", items |-> <<>>]

\* Entries that are malformed, or that decide without their options.
PlainPrograms ==
  { [kind |-> "null", key |-> Undef, claimed |-> Undef, options |-> NoOptions],
    [kind |-> "string", key |-> Undef, claimed |-> Undef, options |-> NoOptions],
    Program(Whole(7), JsTrue, YesChecked),
    Program(Undef, JsTrue, YesChecked),
    Program(KeyVeteranStatus, Str(<<"t", "r", "u", "e">>), YesChecked),
    Program(KeyVeteranStatus, JsFalse, YesChecked),
    Program(KeyVETERAN, JsTrue, YesChecked),
    Program(KeySnap, JsTrue, NoOptions),
    Program(KeySection8, JsTrue, NoOptions) }

\* Claimed veteran entries with every options list.
VeteranPrograms == {Program(KeyVeteranStatus, JsTrue, o) : o \in OptionLists}

\* The claimed veteran entries that stand beside another entry.
PairedPrograms ==
  { Program(KeyVeteranStatus, JsTrue, YesChecked),
    Program(KeyVeteranStatus, JsTrue,
            [kind |-> "array", items |-> <<Option(Str(<<"n", "o">>), JsTrue)>>]),
    Program(KeyVeteranStatus, JsTrue,
            [kind |-> "array",
             items |-> <<[kind |-> "null", key |-> Undef, checked |-> Undef]>>]) }

ProgramLists ==
  { [kind |-> "undefined", entries |-> <<>>],
    [kind |-> "object", entries |-> <<>>],
    [kind |-> "array", entries |-> <<>>] }
    \cup {[kind |-> "array", entries |-> <<e>>] :
            e \in PlainPrograms \cup VeteranPrograms}
    \cup {[kind |-> "array", entries |-> <<e, f>>] :
            e \in PlainPrograms \cup PairedPrograms,
            f \in PlainPrograms \cup PairedPrograms}

IncomeValues ==
  { Undef, Null, Whole(1000), Str(<<>>),
    Str(<<"$", "1", ",", "0", "0", "0">>),
    Str(<<"$", "1", ",", "8", "0", "0">>),
    Str(<<"9", "9", ".", "5">>),
    Str(<<"1", ".", "2", ".", "3">>),
    Str(<<"n", "/", "a">>) }

IncomePeriods == {Undef, Str(WordPerMonth), Str(WordPerYear)}

HousingStatuses ==
  { Undef, Str(WordHomeless), Str(WordRenting), Str(WordOwning), Str(<<"r", "v">>),
    Str(<<"R", "e", "n", "t", "i", "n", "g">>) }

BaseDto ==
  [applicant |-> [present |-> TRUE, birthYear |-> Whole(FirstYear - 35)],
   householdMember |-> [kind |-> "undefined", members |-> <<>>],
   accessibility |-> [present |-> FALSE, mobility |-> Undef, vision |-> Undef,
                      hearing |-> Undef],
   programs |-> [kind |-> "array", entries |-> <<>>],
   income |-> Str(<<"$", "1", ",", "0", "0", "0">>),
   incomePeriod |-> Str(WordPerYear),
   incomeVouchers |-> JsFalse,
   householdSize |-> Undef,
   housingStatus |-> Undef,
   householdExpectingChanges |-> Undef,
   householdStudent |-> Undef]

\* The records vary one group of fields at a time: the encoders read the
\* groups independently of one another.
Dtos ==
  {[BaseDto EXCEPT !.applicant = a] : a \in Applicants}
    \cup {[BaseDto EXCEPT !.householdMember = h] : h \in Households}
    \cup {[BaseDto EXCEPT !.accessibility = a] : a \in Accessibilities}
    \cup {[BaseDto EXCEPT !.programs = p] : p \in ProgramLists}
    \cup {[BaseDto EXCEPT !.income = i, !.incomePeriod = p, !.incomeVouchers = v] :
            i \in IncomeValues, p \in IncomePeriods, v \in {JsFalse, JsTrue, Undef}}
    \cup {[BaseDto EXCEPT !.income = Str(<<"$", "1", ",", "8", "0", "0">>),
                          !.householdSize = n, !.housingStatus = h,
                          !.incomeVouchers = f, !.householdExpectingChanges = g,
                          !.householdStudent = f] :
            n \in {Undef, Whole(0), Whole(3)}, h \in HousingStatuses,
            f \in {JsTrue, Undef}, g \in {JsFalse, JsTrue}}

----------------------------------------------------------------------------
(* The Scoring Service: POST /predict *)

LabelAtRisk == Str(<<"A", "t", " ", "r", "i", "s", "k">>)
LabelNotAtRisk == Str(<<"N", "o", "t", " ", "a", "t", " ", "R", "i", "s", "k">>)

Body(label, probability, prediction, score) ==
  [kind |-> "object", label |-> label, probability |-> probability,
   prediction |-> prediction, risk_score |-> score]
NullBody ==
  [kind |-> "null", label |-> Undef, probability |-> Undef,
   prediction |-> Undef, risk_score |-> Undef]

\* The positive-class probabilities the classifier is seen to return.
Probabilities == {0, 45, 50, 70, Scale}

IsNumber(v) == v.t = "number"

\* Variant A: every required feature key is present and of its type.
ValidInput(x) ==
  /\ IsNumber(x.age) /\ IsNumber(x.income)
  /\ IsBoolean(x.veteran) /\ IsBoolean(x.benefits) /\ IsBoolean(x.disabled)
  /\ IF "num_people" \in DOMAIN x THEN IsNumber(x.num_people)
     ELSE IsNumber(x.adult_kids)

\* Variant B
ValidFeatures(x) ==
  /\ IsNumber(x.income) /\ IsNumber(x.household_size)
  /\ IsNumber(x.housing_status) /\ IsNumber(x.income_vouchers)
  /\ IsNumber(x.household_expecting_changes) /\ IsNumber(x.household_student)

\* threshold: the request's override, or 0.5
RequestThreshold(x) ==
  IF "threshold" \in DOMAIN x /\ IsNumber(x.threshold) THEN x.threshold
  ELSE Num(Scale \div 2)

\* label = at-risk iff probability >= threshold
Label(p, threshold) == IF p >= threshold.n THEN LabelAtRisk ELSE LabelNotAtRisk

Predict(x, p) ==
  Body(Label(p, RequestThreshold(x)), Num(p),
       Whole(IF p >= RequestThreshold(x).n THEN 1 ELSE 0), Undef)

PredictFeatures(x, p) == Body(Undef, Undef, Undef, Num(p))

----------------------------------------------------------------------------
(* getModelPrediction: the Integration Client's call of the Scoring Service *)

Unavailable == "Model prediction service unavailable"

NoResult ==
  [kind |-> "none", prediction |-> Undef, probability |-> Undef, risk_score |-> Undef]
Prediction(label, probability) ==
  [kind |-> "prediction", prediction |-> label, probability |-> probability,
   risk_score |-> Undef]
RiskScore(score) ==
  [kind |-> "score", prediction |-> Undef, probability |-> Undef, risk_score |-> score]

Resolved(v) == [threw |-> FALSE, error |-> "", value |-> v]
Rejected(msg) == [threw |-> TRUE, error |-> msg, value |-> NoResult]

NoResponse == [kind |-> "none", reason |-> "", source |-> "none", body |-> NullBody]
Success(source, body) ==
  [kind |-> "success", reason |-> "", source |-> source, body |-> body]
Failure(reason) ==
  [kind |-> "failure", reason |-> reason, source |-> "none", body |-> NullBody]

\* A client that maps a failed call to the negative label.
getModelPredictionDefaultLabel(resp) ==
  IF resp.kind = "failure" \/ resp.body.kind = "null"
  THEN [threw |-> FALSE, error |-> "",
        value |-> Prediction(LabelNotAtRisk, Num(0))]
  ELSE [threw |-> FALSE, error |-> "",
        value |-> Prediction(resp.body.label, resp.body.probability)]

\* model.helper.ts, part_007, part_008: the awaited post rejects on a
\* failure, and so does reading .label of a null response.data; the catch
\* rethrows both as 'Model prediction service unavailable'.
getModelPrediction(resp) ==
  IF resp.kind = "failure" THEN Rejected(Unavailable)
  ELSE IF resp.body.kind = "null" THEN Rejected(Unavailable)
  ELSE Resolved(Prediction(resp.body.label, resp.body.probability))

\* risk.dto.ts: return response.data.risk_score
getModelPredictionFeatures(resp) ==
  IF resp.kind = "failure" THEN Rejected(Unavailable)
  ELSE IF resp.body.kind = "null" THEN Rejected(Unavailable)
  ELSE Resolved(RiskScore(resp.body.risk_score))

\* Success bodies other than those of the service version the client expects
OtherBodies ==
  { NullBody,
    Body(Undef, Undef, Undef, Num(82)),
    Body(LabelAtRisk, Num(82), Whole(1), Undef),
    Body(Undef, Num(Scale \div 2), Whole(1), Undef),
    Body(LabelAtRisk, Num(150), Whole(1), Num(150)),
    Body(LabelNotAtRisk, Num(-20), Whole(0), Num(-20)) }

FailureReasons == {"timeout", "network", "non_success"}

----------------------------------------------------------------------------
(* The state machine: one submitted application is encoded and scored *)

VARIABLES
  revision,      \* which encoder and client the workflow uses
  dto,           \* the application record
  currentYear,   \* new Date().getFullYear()
  thresholdArg,  \* the threshold argument of mapDtoToModelInput, or undefined
  pc,            \* the workflow's position
  input,         \* the encoder's outcome
  request,       \* the payload posted to /predict
  response,      \* the HTTP outcome
  result,        \* what getModelPrediction returned
  error,         \* the message of the Error it threw
  again,         \* a later call of the encoder on the same record
  warnings       \* the console.warn entries of the encoder

\* The risk table and the applications table it references
VARIABLES
  applicationRows,  \* the ids of the rows of "applications"
  riskRows,         \* the rows of "risk"
  deleted,          \* the deleted application ids, and whether each had a risk row
  lastInsert        \* how the last INSERT INTO "risk" ended

\* RiskScoreDashboard
VARIABLES
  applications,     \* what useApplicationsData returned
  selectedListing,
  selectedState,
  searchTerm,
  currentPage,
  sortField,
  sortDirection

\* ApplicationConfirmation and its CustomResults
VARIABLES
  storedPrediction, \* localStorage.getItem("riskPrediction")
  riskPrediction,
  customQuery,
  loading,
  customResults,
  searchError,      \* the page's error state
  hasSearched,
  fetching, mounted          \* whether a call of handleCustomSearch awaits its response

scoringVars == <<revision, dto, currentYear, thresholdArg, pc, input, request,
                 response, result, error, again, warnings>>
storeVars == <<applicationRows, riskRows, deleted, lastInsert>>
dashboardVars == <<applications, selectedListing, selectedState, searchTerm,
                   currentPage, sortField, sortDirection>>
pageVars == <<storedPrediction, riskPrediction, customQuery, loading, customResults,
              searchError, hasSearched, fetching, mounted>>

vars == <<scoringVars, storeVars, dashboardVars, pageVars>>

\* The other components at rest
StoreIdle ==
  /\ applicationRows = {}
  /\ riskRows = {}
  /\ deleted = <<>>
  /\ lastInsert = "none"

DashboardIdle ==
  /\ applications = <<>>
  /\ selectedListing = "all"
  /\ selectedState = "all"
  /\ searchTerm = <<>>
  /\ currentPage = 1
  /\ sortField = "riskScore"
  /\ sortDirection = "desc"

PageIdle ==
  /\ storedPrediction = Null
  /\ riskPrediction = Null
  /\ customQuery = <<>>
  /\ loading = FALSE
  /\ customResults = Null
  /\ searchError = Null
  /\ hasSearched = FALSE
  /\ fetching = FALSE
  /\ mounted = FALSE

Revisions == {"model.helper", "part_007", "part_008", "risk.dto"}
TakesThreshold(r) == r \in {"part_007", "part_008"}
ThresholdArgs == {Undef, Num(70)}

NoInput == Returned(Undef)
NotAgain == [called |-> FALSE, year |-> 0, outcome |-> NoInput]

Init ==
  /\ revision \in Revisions
  /\ dto \in Dtos
  /\ currentYear \in Years
  /\ thresholdArg \in IF TakesThreshold(revision) THEN ThresholdArgs ELSE {Undef}
  /\ pc = "start"
  /\ input = NoInput
  /\ request = Undef
  /\ response = NoResponse
  /\ result = NoResult
  /\ error = ""
  /\ again = NotAgain
  /\ warnings = {}
  /\ StoreIdle
  /\ DashboardIdle
  /\ PageIdle

Encode(r, d, year, threshold) ==
  CASE r = "model.helper" -> mapDtoToModelInput(d, year)
    [] r = "part_007" -> mapDtoToModelInput007(d, year, threshold)
    [] r = "part_008" -> mapDtoToModelInput008(d, year, threshold)
    [] r = "risk.dto" -> mapDtoToModelFeatures(d)

\* The workflow builds the features; a TypeError of the encoder ends it.
MapDto ==
  /\ pc = "start"
  /\ LET outcome == Encode(revision, dto, currentYear, thresholdArg)
     IN  /\ input' = outcome
         /\ pc' = IF outcome.threw THEN "mapThrew" ELSE "mapped"
  /\ warnings' = EncodeWarnings(revision, dto, currentYear)
  /\ UNCHANGED <<revision, dto, currentYear, thresholdArg, request, response,
                 result, error, again, storeVars, dashboardVars, pageVars>>

\* httpService.post(`${flaskUrl}/predict`, input): no timeout is configured
Post ==
  /\ pc = "mapped"
  /\ request' = input.value
  /\ pc' = "waiting"
  /\ UNCHANGED <<revision, dto, currentYear, thresholdArg, input, response,
                 result, error, again, warnings, storeVars, dashboardVars, pageVars>>

ValidRequest == IF revision = "risk.dto" THEN ValidFeatures(request)
                ELSE ValidInput(request)

\* The service of the client's version answers a valid request
ServicePredict ==
  /\ pc = "waiting"
  /\ ValidRequest
  /\ \E p \in Probabilities :
       response' = Success("predict",
                           IF revision = "risk.dto" THEN PredictFeatures(request, p)
                           ELSE Predict(request, p))
  /\ pc' = "responded"
  /\ UNCHANGED <<revision, dto, currentYear, thresholdArg, input, request,
                 result, error, again, warnings, storeVars, dashboardVars, pageVars>>

\* and rejects an invalid one with a client-error response
ServiceReject ==
  /\ pc = "waiting"
  /\ ~ValidRequest
  /\ response' = Failure("non_success")
  /\ pc' = "responded"
  /\ UNCHANGED <<revision, dto, currentYear, thresholdArg, input, request,
                 result, error, again, warnings, storeVars, dashboardVars, pageVars>>

\* Whatever listens at FLASK_URL answers with some other success body
HttpSuccess ==
  /\ pc = "waiting"
  /\ \E b \in OtherBodies : response' = Success("other", b)
  /\ pc' = "responded"
  /\ UNCHANGED <<revision, dto, currentYear, thresholdArg, input, request,
                 result, error, again, warnings, storeVars, dashboardVars, pageVars>>

\* The connection fails, times out in the network, or a non-2xx status comes
HttpError ==
  /\ pc = "waiting"
  /\ \E reason \in FailureReasons : response' = Failure(reason)
  /\ pc' = "responded"
  /\ UNCHANGED <<revision, dto, currentYear, thresholdArg, input, request,
                 result, error, again, warnings, storeVars, dashboardVars, pageVars>>

ClientOutcome(r, resp) ==
  IF r = "risk.dto" THEN getModelPredictionFeatures(resp)
  ELSE getModelPrediction(resp)

\* The awaited promise settles and getModelPrediction returns or throws
Resume ==
  /\ pc = "responded"
  /\ LET outcome == ClientOutcome(revision, response)
     IN  /\ result' = outcome.value
         /\ error' = outcome.error
         /\ pc' = IF outcome.threw THEN "thrown" ELSE "returned"
  /\ UNCHANGED <<revision, dto, currentYear, thresholdArg, input, request, response,
                 again, warnings, storeVars, dashboardVars, pageVars>>

\* The same record is submitted once more, in the same year or in a later
\* one: the encoder reads new Date().getFullYear() at each call.
MapDtoAgain ==
  /\ pc \in {"returned", "thrown"}
  /\ ~again.called
  /\ \E year \in {y \in Years : y >= currentYear} :
       /\ again' = [called |-> TRUE, year |-> year,
                    outcome |-> Encode(revision, dto, year, thresholdArg)]
       /\ warnings' = warnings \cup EncodeWarnings(revision, dto, year)
  /\ UNCHANGED <<revision, dto, currentYear, thresholdArg, pc, input, request,
                 response, result, error, storeVars, dashboardVars, pageVars>>

Next ==
  \/ MapDto
  \/ Post
  \/ ServicePredict
  \/ ServiceReject
  \/ HttpSuccess
  \/ HttpError
  \/ Resume
  \/ MapDtoAgain

Spec == Init /\ [][Next]_vars

\* The continuation of the awaited call runs once the call has settled (the
\* event loop runs every ready continuation); nothing obliges the service or
\* the network to answer.
FairSpec == Init /\ [][Next]_vars /\ WF_vars(Resume)

----------------------------------------------------------------------------
(* The risk table: src/api/prisma/migrations/20250530004213_add_risk_model   *)

\* The most applications the tables hold in the model.
MaxApplications == 3
ApplicationIds == 1..MaxApplications
RiskIds == 1..(MaxApplications + 1)

\* The columns of "risk" an INSERT leaves out take their defaults.
DefaultRiskValues ==
  [risk_probability |-> Num(0), risk_prediction |-> FALSE, veteran |-> FALSE,
   income |-> Num(0), disabled |-> FALSE, num_people |-> 1, age |-> Null,
   benefits |-> FALSE]

RiskValues ==
  { DefaultRiskValues,
    [DefaultRiskValues EXCEPT !.risk_probability = Num(82), !.risk_prediction = TRUE,
                              !.veteran = TRUE, !.income = Whole(1000),
                              !.age = Whole(35)],
    [DefaultRiskValues EXCEPT !.risk_probability = Num(45), !.num_people = 3,
                              !.age = Whole(18), !.benefits = TRUE] }

RiskRow(id, a, v) == [id |-> id, application_id |-> a, values |-> v]

\* "id" UUID DEFAULT uuid_generate_v4(): an id no row carries
NewRiskId(rows) ==
  CHOOSE id \in RiskIds :
    /\ \A r \in rows : r.id # id
    /\ \A other \in RiskIds : (\A r \in rows : r.id # other) => id <= other

\* A table without risk_application_id_key.
InsertRiskNoUniqueIndex(rows, apps, a, v) ==
  IF a \notin apps THEN [rows |-> rows, result |-> "foreign_key_violation"]
  ELSE [rows |-> rows \cup {RiskRow(NewRiskId(rows), a, v)}, result |-> "inserted"]

\* An insert that overwrites on conflict (ON CONFLICT ... DO UPDATE).
InsertRiskUpsert(rows, apps, a, v) ==
  IF a \notin apps THEN [rows |-> rows, result |-> "foreign_key_violation"]
  ELSE IF \E r \in rows : r.application_id = a
  THEN [rows |-> {IF r.application_id = a THEN [r EXCEPT !.values = v] ELSE r :
                    r \in rows},
        result |-> "inserted"]
  ELSE [rows |-> rows \cup {RiskRow(NewRiskId(rows), a, v)}, result |-> "inserted"]

\* INSERT INTO "risk": risk_application_id_fkey wants the application to
\* exist, risk_application_id_key wants no other row of that application.
InsertRisk(rows, apps, a, v) ==
  IF a \notin apps THEN [rows |-> rows, result |-> "foreign_key_violation"]
  ELSE IF \E r \in rows : r.application_id = a
  THEN [rows |-> rows, result |-> "unique_violation"]
  ELSE [rows |-> rows \cup {RiskRow(NewRiskId(rows), a, v)}, result |-> "inserted"]

\* A foreign key that leaves the risk rows where they are.
OnDeleteNoCascade(rows, a) == rows

\* ON DELETE CASCADE: the rows of the deleted application go with it.
OnDeleteCascade(rows, a) == {r \in rows : r.application_id # a}

StoreInit ==
  /\ StoreIdle
  /\ revision = "model.helper"
  /\ dto = BaseDto
  /\ currentYear = FirstYear
  /\ thresholdArg = Undef
  /\ pc = "start"
  /\ input = NoInput
  /\ request = Undef
  /\ response = NoResponse
  /\ result = NoResult
  /\ error = ""
  /\ again = NotAgain
  /\ warnings = {}
  /\ DashboardIdle
  /\ PageIdle

\* An application is submitted: a row of "applications" with a new id
CreateApplication ==
  /\ \E a \in ApplicationIds :
       /\ a \notin applicationRows
       /\ a \notin DOMAIN deleted
       /\ applicationRows' = applicationRows \cup {a}
  /\ UNCHANGED <<riskRows, deleted, lastInsert>>
  /\ UNCHANGED <<scoringVars, dashboardVars, pageVars>>

\* The scoring result of an application is persisted
PersistRisk ==
  /\ \E a \in ApplicationIds, v \in RiskValues :
       LET outcome == InsertRisk(riskRows, applicationRows, a, v)
       IN  /\ riskRows' = outcome.rows
           /\ lastInsert' = outcome.result
  /\ UNCHANGED <<applicationRows, deleted>>
  /\ UNCHANGED <<scoringVars, dashboardVars, pageVars>>

\* An application is deleted
DeleteApplication ==
  /\ \E a \in applicationRows :
       /\ applicationRows' = applicationRows \ {a}
       /\ riskRows' = OnDeleteCascade(riskRows, a)
       /\ deleted' = [x \in DOMAIN deleted \cup {a} |->
                        IF x = a THEN \E r \in riskRows : r.application_id = a
                        ELSE deleted[x]]
  /\ UNCHANGED lastInsert
  /\ UNCHANGED <<scoringVars, dashboardVars, pageVars>>

StoreNext ==
  \/ CreateApplication
  \/ PersistRisk
  \/ DeleteApplication

StoreSpec == StoreInit /\ [][StoreNext]_vars

----------------------------------------------------------------------------
(* RiskScoreDashboard:                                                       *)
(* src/sites/partners/src/components/applications/RiskScoreDashboard.tsx    *)

itemsPerPage == 20

\* The longest list of applications useApplicationsData returns in the model.
MaxListed == 60

Pick(seq, i) == seq[(i % Len(seq)) + 1]

ListedProbabilities ==
  <<Num(0), Num(39), Num(40), Num(69), Num(70), Num(Scale), Null, Undef>>
ListedIncomes ==
  <<Undef, Whole(0), Whole(20000), Whole(25000), Whole(60000), Whole(100000),
    Whole(150000)>>
ListedAges == <<Whole(18), Whole(35), Null, Whole(70)>>
FirstNames == << <<"A", "n", "n">>, <<"B", "o", "b">>, <<>> >>
LastNames == << <<"S", "m", "i", "t", "h">>, <<"L", "e", "e">> >>

RiskFields(i) ==
  [riskProbability |-> Pick(ListedProbabilities, i),
   riskPrediction |-> IF i % 4 = 3 THEN Undef ELSE Bool(i % 2 = 0),
   veteran |-> Bool(i % 2 = 1),
   income |-> Pick(ListedIncomes, i),
   disabled |-> Bool(i % 3 = 1),
   age |-> Pick(ListedAges, i),
   benefits |-> IF i % 5 = 2 THEN Undef ELSE Bool(i % 5 = 1),
   numPeople |-> IF i % 6 = 0 THEN Undef ELSE Whole(i % 6)]

NoRiskFields ==
  [riskProbability |-> Undef, riskPrediction |-> Undef, veteran |-> Undef,
   income |-> Undef, disabled |-> Undef, age |-> Undef, benefits |-> Undef,
   numPeople |-> Undef]

\* The i-th application of the list: every eleventh carries its risk fields
\* on the application itself and has no risk object.
ListedApplication(i) ==
  [id |-> i,
   listingName |-> IF i <= 5 THEN "Oak" ELSE IF i % 9 = 0 THEN "" ELSE "Elm",
   state |-> IF i % 3 = 0 THEN "" ELSE IF i % 3 = 1 THEN "CA" ELSE "NV",
   firstName |-> Pick(FirstNames, i),
   lastName |-> Pick(LastNames, i),
   confirmationCode |-> IF i % 7 = 0 THEN Undef
                        ELSE Str(<<"Z", "Z">> \o NatToDigits(i)),
   hasRisk |-> i % 11 # 0,
   risk |-> IF i % 11 # 0 THEN RiskFields(i) ELSE NoRiskFields,
   flat |-> IF i % 11 = 0 THEN RiskFields(i + 1) ELSE NoRiskFields,
   householdSize |-> IF i % 4 = 0 THEN Undef ELSE Whole(2)]

ApplicationLists ==
  { <<>>,
    [i \in 1..9 |-> ListedApplication(i)],
    [i \in 1..MaxListed |-> ListedApplication(i)] }

SearchTerms == { <<>>, <<"S", "M", "I">>, <<"z", "z", "1">>, <<"q">> }
SortColumns == {"riskScore", "income", "householdSize"}

\* const risk = app.risk || { riskProbability: app.riskProbability, ... }
RiskOf(app) == IF app.hasRisk THEN app.risk ELSE app.flat

\* A filter that takes every application to have risk data.
hasRiskDataAlways(app) == TRUE

\* risk?.riskProbability !== undefined && risk?.riskProbability !== null
hasRiskData(app) == RiskOf(app).riskProbability \notin {Undef, Null}

matchesListing(app) ==
  selectedListing = "all" \/ (app.listingName # "" /\ app.listingName = selectedListing)

matchesState(app) ==
  selectedState = "all" \/ (app.state # "" /\ app.state = selectedState)

\* `${app.applicant?.firstName || ''} ${app.applicant?.lastName || ''}`
FullName(app) == app.firstName \o <<" ">> \o app.lastName

matchesSearch(app) ==
  \/ searchTerm = <<>>
  \/ Includes(ToLowerCase(FullName(app)), ToLowerCase(searchTerm))
  \/ /\ app.confirmationCode # Undef
     /\ Includes(ToLowerCase(app.confirmationCode.s), ToLowerCase(searchTerm))

filteredApplications ==
  SelectSeq(applications,
            LAMBDA app : /\ hasRiskData(app)
                         /\ matchesListing(app)
                         /\ matchesState(app)
                         /\ matchesSearch(app))

\* filterOptions: the listing names and states the applications carry
filterOptions ==
  [listings |-> {applications[i].listingName : i \in DOMAIN applications} \ {""},
   states |-> {applications[i].state : i \in DOMAIN applications} \ {""}]

\* a < b on numbers: false when an operand is no number
Lt(a, b) == a.t = "number" /\ b.t = "number" /\ a.n < b.n
Gt(a, b) == a.t = "number" /\ b.t = "number" /\ a.n > b.n

LowBelow == 40
MediumBelow == 70

\* riskAnalytics, "Determine risk level": the level, and the counter raised
AnalyticsLevel(risk) ==
  IF risk.riskProbability \notin {Undef, Null}
  THEN IF Lt(risk.riskProbability, Num(LowBelow)) THEN [level |-> "low", counted |-> TRUE]
       ELSE IF Lt(risk.riskProbability, Num(MediumBelow))
       THEN [level |-> "medium", counted |-> TRUE]
       ELSE [level |-> "high", counted |-> TRUE]
  ELSE IF risk.riskPrediction # Undef
  THEN IF Truthy(risk.riskPrediction) THEN [level |-> "high", counted |-> TRUE]
       ELSE [level |-> "low", counted |-> TRUE]
  ELSE [level |-> "low", counted |-> FALSE]

\* riskAnalytics, "Income analysis (cap at 100k for better distribution)"
IncomeRange(risk) ==
  IF Truthy(risk.income) /\ Gt(risk.income, Num(0))
  THEN LET cappedIncome == IF risk.income.n <= 100000 * Scale THEN risk.income.n
                           ELSE 100000 * Scale
       IN  IF cappedIncome <= 25000 * Scale THEN "0-25k"
           ELSE IF cappedIncome <= 50000 * Scale THEN "25k-50k"
           ELSE IF cappedIncome <= 75000 * Scale THEN "50k-75k"
           ELSE IF cappedIncome <= 100000 * Scale THEN "75k-100k"
           ELSE "100k+"
  ELSE "none"

IncomeRanges == {"0-25k", "25k-50k", "50k-75k", "75k-100k", "100k+"}

CountOf(seq, Test(_)) == Cardinality({i \in DOMAIN seq : Test(seq[i])})

riskAnalytics ==
  LET apps == filteredApplications
      level(app) == AnalyticsLevel(RiskOf(app))
      lowRisk == CountOf(apps, LAMBDA app : level(app).counted /\ level(app).level = "low")
      mediumRisk ==
        CountOf(apps, LAMBDA app : level(app).counted /\ level(app).level = "medium")
      highRisk ==
        CountOf(apps, LAMBDA app : level(app).counted /\ level(app).level = "high")
  IN  [riskDistribution |-> [low |-> lowRisk, medium |-> mediumRisk, high |-> highRisk],
       demographics |->
         [veteran |-> CountOf(apps, LAMBDA app : Truthy(RiskOf(app).veteran)),
          disabled |-> CountOf(apps, LAMBDA app : Truthy(RiskOf(app).disabled)),
          benefits |-> CountOf(apps, LAMBDA app : Truthy(RiskOf(app).benefits)),
          totalWithRisk |-> lowRisk + mediumRisk + highRisk],
       incomeDistribution |->
         [range \in IncomeRanges |->
            CountOf(apps, LAMBDA app : IncomeRange(RiskOf(app)) = range)]]

\* processedApplications: risk?.riskProbability ? (... < 0.4 ? "low" :
\* ... < 0.7 ? "medium" : "high") : null
TableLevel(risk) ==
  IF Truthy(risk.riskProbability)
  THEN IF Lt(risk.riskProbability, Num(LowBelow)) THEN "low"
       ELSE IF Lt(risk.riskProbability, Num(MediumBelow)) THEN "medium"
       ELSE "high"
  ELSE "null"

\* The row of the table for an application
ProcessedRow(app) ==
  LET risk == RiskOf(app)
  IN  [id |-> app.id,
       riskScore |-> IF Truthy(risk.riskProbability)
                     THEN Whole(risk.riskProbability.n) ELSE Null,
       riskLevel |-> TableLevel(risk),
       income |-> OrElse(risk.income, Num(0)),
       householdSize |-> OrElse(risk.numPeople, OrElse(app.householdSize, Whole(1)))]

\* The comparator of the sort: numbers by their difference, anything else by
\* String(a).localeCompare(String(b)), where digits sort before "null".
Compare(a, b) ==
  IF a.t = "number" /\ b.t = "number" THEN a.n - b.n
  ELSE IF a.t = b.t THEN 0
  ELSE IF a.t = "number" THEN 0 - 1
  ELSE 1

\* Array.prototype.sort is stable: equal rows keep their order.
Sorted(rows, field, direction) ==
  LET sign == IF direction = "asc" THEN 1 ELSE 0 - 1
      before(i, j) ==
        \/ Compare(rows[i][field], rows[j][field]) * sign < 0
        \/ Compare(rows[i][field], rows[j][field]) * sign = 0 /\ i < j
      place(i) == 1 + Cardinality({j \in DOMAIN rows : before(j, i)})
  IN  [k \in DOMAIN rows |-> rows[CHOOSE i \in DOMAIN rows : place(i) = k]]

processedApplications ==
  Sorted([i \in DOMAIN filteredApplications |-> ProcessedRow(filteredApplications[i])],
         sortField, sortDirection)

\* Math.ceil(processedApplications.length / itemsPerPage)
totalPages == (Len(filteredApplications) + itemsPerPage - 1) \div itemsPerPage

\* processedApplications.slice(startIndex, startIndex + itemsPerPage)
paginatedApplications ==
  LET startIndex == (currentPage - 1) * itemsPerPage
      n == Len(processedApplications)
      last == IF startIndex + itemsPerPage <= n THEN startIndex + itemsPerPage ELSE n
  IN  SubSeq(processedApplications, startIndex + 1, last)

\* The number of rows of the page, which does not depend on their order.
PageLength ==
  LET startIndex == (currentPage - 1) * itemsPerPage
      n == Len(filteredApplications)
      last == IF startIndex + itemsPerPage <= n THEN startIndex + itemsPerPage ELSE n
  IN  IF last > startIndex THEN last - startIndex ELSE 0

DashboardInit ==
  /\ applications \in ApplicationLists
  /\ selectedListing = "all"
  /\ selectedState = "all"
  /\ searchTerm = <<>>
  /\ currentPage = 1
  /\ sortField = "riskScore"
  /\ sortDirection = "desc"
  /\ StoreIdle
  /\ PageIdle
  /\ revision = "model.helper"
  /\ dto = BaseDto
  /\ currentYear = FirstYear
  /\ thresholdArg = Undef
  /\ pc = "start"
  /\ input = NoInput
  /\ request = Undef
  /\ response = NoResponse
  /\ result = NoResult
  /\ error = ""
  /\ again = NotAgain
  /\ warnings = {}

\* onChange of the Listing select
SelectListing ==
  /\ \E listing \in {"all"} \cup filterOptions.listings :
       selectedListing' = listing
  /\ UNCHANGED <<applications, selectedState, searchTerm, currentPage, sortField,
                 sortDirection>>
  /\ UNCHANGED <<scoringVars, storeVars, pageVars>>

\* onChange of the State select
SelectState ==
  /\ \E state \in {"all"} \cup filterOptions.states :
       selectedState' = state
  /\ UNCHANGED <<applications, selectedListing, searchTerm, currentPage, sortField,
                 sortDirection>>
  /\ UNCHANGED <<scoringVars, storeVars, pageVars>>

\* onChange of the Search input
EditSearch ==
  /\ \E term \in SearchTerms : searchTerm' = term
  /\ UNCHANGED <<applications, selectedListing, selectedState, currentPage, sortField,
                 sortDirection>>
  /\ UNCHANGED <<scoringVars, storeVars, pageVars>>

\* The Previous button: rendered when totalPages > 1, disabled on page 1
PreviousPage ==
  /\ totalPages > 1
  /\ currentPage # 1
  /\ currentPage' = IF currentPage - 1 >= 1 THEN currentPage - 1 ELSE 1
  /\ UNCHANGED <<applications, selectedListing, selectedState, searchTerm, sortField,
                 sortDirection>>
  /\ UNCHANGED <<scoringVars, storeVars, pageVars>>

\* The Next button: rendered when totalPages > 1, disabled on the last page
NextPage ==
  /\ totalPages > 1
  /\ currentPage # totalPages
  /\ currentPage' = IF currentPage + 1 <= totalPages THEN currentPage + 1
                    ELSE totalPages
  /\ UNCHANGED <<applications, selectedListing, selectedState, searchTerm, sortField,
                 sortDirection>>
  /\ UNCHANGED <<scoringVars, storeVars, pageVars>>

\* handleSort(field): a click on a column header
handleSort ==
  /\ \E field \in SortColumns :
       IF sortField = field
       THEN /\ sortDirection' = IF sortDirection = "asc" THEN "desc" ELSE "asc"
            /\ UNCHANGED sortField
       ELSE /\ sortField' = field
            /\ sortDirection' = "desc"
  /\ UNCHANGED <<applications, selectedListing, selectedState, searchTerm, currentPage>>
  /\ UNCHANGED <<scoringVars, storeVars, pageVars>>

DashboardNext ==
  \/ SelectListing
  \/ SelectState
  \/ EditSearch
  \/ PreviousPage
  \/ NextPage
  \/ handleSort

DashboardSpec == DashboardInit /\ [][DashboardNext]_vars

----------------------------------------------------------------------------
(* The applicant confirmation page:                                        *)
(* src/sites/public/src/pages/applications/review/confirmation.tsx, with   *)
(* CustomResults (src/unnamed/part_006) and the response of the search     *)
(* service (src/unnamed/part_005)                                          *)

\* An array value; s holds its elements
Arr(items) == [t |-> "array", n |-> 0, s |-> items]

LabelNotAtRiskLower == Str(<<"N", "o", "t", " ", "a", "t", " ", "r", "i", "s", "k">>)

\* What localStorage.getItem("riskPrediction") can return
StoredPredictions == {Null, LabelAtRisk, LabelNotAtRisk, LabelNotAtRiskLower}

\* riskSupportContent: the resources under each key, "none" for a missing key
riskSupportContent(key) ==
  IF key = <<"A", "t", " ", "r", "i", "s", "k">> THEN "atRiskResources"
  ELSE IF key = <<"N", "o", "t", " ", "a", "t", " ", "r", "i", "s", "k">>
  THEN "notAtRiskResources"
  ELSE "none"

\* riskPrediction && riskSupportContent[riskPrediction] && (<CardSection ...>)
SupportiveServices ==
  IF Truthy(riskPrediction) /\ riskSupportContent(riskPrediction.s) # "none"
  THEN riskSupportContent(riskPrediction.s)
  ELSE "none"

\* The most providers a search returns in the model.
MaxResults == 2

\* SearchResponse.results: the providers found, each named by its rank
ResultLists == {[i \in 1..k |-> i] : k \in 0..MaxResults}

\* A SearchResponse body { query, results }
SearchResponse(items) == [t |-> "response", n |-> 0, s |-> items]

\* The bodies response.json() can yield: a SearchResponse, or an object
\* without results
SearchBodies == {SearchResponse(items) : items \in ResultLists} \cup {Null}

\* value.results, value?.results: the results of a SearchResponse, undefined
\* for an array and for null
ResultsOf(value) == IF value.t = "response" THEN Arr(value.s) ELSE Undef

Queries == { <<>>, <<"r", "e", "n", "t">>, <<"f", "o", "o", "d">> }

\* CustomResults: const results = customResults?.results || []
results ==
  IF Truthy(ResultsOf(customResults)) THEN ResultsOf(customResults).s ELSE <<>>

\* What CustomResults returns
CustomResultsView ==
  IF loading THEN [shows |-> "Loading results...", entries |-> <<>>]
  ELSE IF hasSearched /\ Len(results) = 0
  THEN [shows |-> "No results found.", entries |-> <<>>]
  ELSE IF Len(results) = 0 THEN [shows |-> "nothing", entries |-> <<>>]
  ELSE [shows |-> "entries", entries |-> results]

\* {error && <p className="text-red-500">{error}</p>}
ErrorShown == searchError # Null

PageInit ==
  /\ storedPrediction \in StoredPredictions
  /\ riskPrediction = Null
  /\ customQuery = <<>>
  /\ loading = FALSE
  /\ customResults = Null
  /\ searchError = Null
  /\ hasSearched = FALSE
  /\ fetching = FALSE
  /\ mounted = FALSE
  /\ StoreIdle
  /\ DashboardIdle
  /\ revision = "model.helper"
  /\ dto = BaseDto
  /\ currentYear = FirstYear
  /\ thresholdArg = Undef
  /\ pc = "start"
  /\ input = NoInput
  /\ request = Undef
  /\ response = NoResponse
  /\ result = NoResult
  /\ error = ""
  /\ again = NotAgain
  /\ warnings = {}

\* useEffect(() => { setRiskPrediction(localStorage.getItem("riskPrediction")) }, [])
ReadStoredPrediction ==
  /\ ~mounted
  /\ mounted' = TRUE
  /\ riskPrediction' = storedPrediction
  /\ UNCHANGED <<storedPrediction, customQuery, loading, customResults, searchError,
                 hasSearched, fetching>>
  /\ UNCHANGED <<scoringVars, storeVars, dashboardVars>>

\* onChange of the query input
EditQuery ==
  /\ mounted
  /\ \E query \in Queries : customQuery' = query
  /\ UNCHANGED <<storedPrediction, riskPrediction, loading, customResults, searchError,
                 hasSearched, fetching, mounted>>
  /\ UNCHANGED <<scoringVars, storeVars, dashboardVars>>

\* handleCustomSearch up to the await of fetch; the button is disabled={loading}
handleCustomSearch ==
  /\ mounted
  /\ ~loading
  /\ loading' = TRUE
  /\ searchError' = Null
  /\ customResults' = Null
  /\ fetching' = TRUE
  /\ UNCHANGED <<storedPrediction, riskPrediction, customQuery, hasSearched, mounted>>
  /\ UNCHANGED <<scoringVars, storeVars, dashboardVars>>

\* handleCustomSearch after the await: response.ok, then finally
SearchSucceeds ==
  /\ fetching
  /\ \E data \in SearchBodies : customResults' = ResultsOf(data)
  /\ customQuery' = <<>>
  /\ loading' = FALSE
  /\ fetching' = FALSE
  /\ UNCHANGED <<storedPrediction, riskPrediction, searchError, hasSearched, mounted>>
  /\ UNCHANGED <<scoringVars, storeVars, dashboardVars>>

\* handleCustomSearch after the await: fetch rejects or !response.ok, then
\* catch and finally
SearchFails ==
  /\ fetching
  /\ searchError' = Str(<<"F", "a", "i", "l", "e", "d">>)
  /\ loading' = FALSE
  /\ fetching' = FALSE
  /\ UNCHANGED <<storedPrediction, riskPrediction, customQuery, customResults,
                 hasSearched, mounted>>
  /\ UNCHANGED <<scoringVars, storeVars, dashboardVars>>

\* CustomResults: useEffect(() => { if (!loading && customResults)
\* setHasSearched(true) }, [loading, customResults])
HasSearchedEffect ==
  /\ ~loading
  /\ Truthy(customResults)
  /\ ~hasSearched
  /\ hasSearched' = TRUE
  /\ UNCHANGED <<storedPrediction, riskPrediction, customQuery, loading, customResults,
                 searchError, fetching, mounted>>
  /\ UNCHANGED <<scoringVars, storeVars, dashboardVars>>

PageNext ==
  \/ ReadStoredPrediction
  \/ EditQuery
  \/ handleCustomSearch
  \/ SearchSucceeds
  \/ SearchFails
  \/ HasSearchedEffect

PageSpec == PageInit /\ [][PageNext]_vars

----------------------------------------------------------------------------
(* Claims *)

Done == pc \in {"returned", "thrown"}
Encoded == pc # "start" /\ ~input.threw
VariantA == revision # "risk.dto"

\* C1: when the HTTP call fails (timeout, network error, non-success
\* response) getModelPrediction throws 'Model prediction service unavailable'
\* and no prediction, score or default label reaches the caller.
C1_FailureThrowsUnavailable ==
  response.kind = "failure" =>
    /\ result = NoResult
    /\ pc # "returned"
    /\ pc = "thrown" => error = Unavailable

C1_Witness ==
  /\ pc = "thrown"
  /\ response.kind = "failure"
  /\ response.reason = "timeout"
  /\ error = Unavailable

\* C2: every probability getModelPrediction returns lies in [0, 1], whatever
\* body the success response carries.
InUnitInterval(v) == v.t = "number" /\ 0 <= v.n /\ v.n <= Scale

C2_ProbabilityInUnitInterval ==
  pc = "returned" =>
    IF VariantA THEN InUnitInterval(result.probability)
    ELSE InUnitInterval(result.risk_score)

\* C3: a success response whose body lacks the probability or the label is
\* never returned as a ModelPrediction with an undefined probability or
\* prediction.
C3_ResponseValidated ==
  (pc = "returned" /\ VariantA) =>
    /\ result.probability # Undef
    /\ result.prediction # Undef

\* C4: every call of getModelPrediction ends, also when the Scoring Service
\* never answers.
C4_CallTerminates == (pc = "waiting") ~> Done

\* C5: the label the caller receives from the Scoring Service is at-risk iff
\* probability >= threshold, the threshold being the one the caller supplied
\* to mapDtoToModelInput, or 0.5; a tie is at-risk.
SuppliedThreshold == IF thresholdArg = Undef THEN Scale \div 2 ELSE thresholdArg.n

C5_LabelIffAtOrAboveThreshold ==
  (pc = "returned" /\ VariantA /\ response.source = "predict") =>
    /\ result.prediction \in {LabelAtRisk, LabelNotAtRisk}
    /\ result.prediction = LabelAtRisk <=> result.probability.n >= SuppliedThreshold

C5_Witness ==
  /\ pc = "returned"
  /\ revision = "part_007"
  /\ thresholdArg = Undef
  /\ response.source = "predict"
  /\ result.probability = Num(Scale \div 2)
  /\ result.prediction = LabelAtRisk

\* C6: the encoders never throw, whatever fields of the record are missing,
\* null or of an unexpected shape.
C6_EncoderTotal == pc # "mapThrew"

\* C7: mapDtoToModelInput skips a malformed entry of programs or of a
\* program's options: encoding is not aborted, the entry contributes nothing
\* to veteran, and the other entries are evaluated.
WellFormedOption(o) == o.kind = "object" /\ IsString(o.key)
WellFormedProgram(e) == e.kind = "object" /\ IsString(e.key) /\ IsBoolean(e.claimed)

OptionChecked(e, word) ==
  /\ e.options.kind = "array"
  /\ \E i \in DOMAIN e.options.items :
       /\ WellFormedOption(e.options.items[i])
       /\ ToLowerCase(e.options.items[i].key.s) = word
       /\ e.options.items[i].checked = JsTrue

\* The veteran rule over the well-formed entries and options
VeteranRule(programs) ==
  /\ programs.kind = "array"
  /\ \E i \in DOMAIN programs.entries :
       /\ WellFormedProgram(programs.entries[i])
       /\ programs.entries[i].claimed = JsTrue
       /\ Includes(ToLowerCase(programs.entries[i].key.s), WordVeteran)
       /\ OptionChecked(programs.entries[i], WordYes)
       /\ ~OptionChecked(programs.entries[i], WordNo)

C7_MalformedEntriesSkipped ==
  (revision = "model.helper" /\ pc # "start") =>
    /\ ~input.threw
    /\ input.value.veteran = Bool(VeteranRule(dto.programs))

\* C8: mapDtoToModelInput sets veteran = true iff one program entry is
\* claimed, has a key containing "veteran" (any case), a checked "yes" option
\* and no checked "no" option.
C8_VeteranIffRule ==
  (revision = "model.helper" /\ pc # "start") =>
    ((~input.threw /\ input.value.veteran = JsTrue) <=> VeteranRule(dto.programs))

\* C9: income is the income string without its non-digit, non-'.'
\* characters, parsed as a number (0 when absent or unparsable), times 12
\* exactly when incomePeriod is "perMonth".
ExpectedIncome(d) ==
  LET parsed == IF d.income \in {Undef, Null} THEN NaN
                ELSE StringToNumber(StripNonNumeric(JsString(d.income)))
      yearly == IF parsed.t = "NaN" THEN Num(0) ELSE parsed
  IN  IF d.incomePeriod = Str(WordPerMonth) THEN Num(yearly.n * Months) ELSE yearly

C9_IncomeAnnualized ==
  (Encoded /\ VariantA) => input.value.income = ExpectedIncome(dto)

\* C10: with any birth year present on the applicant (number or string,
\* past, future or non-numeric) the age returned is a number >= 18.
C10_AgeAtLeast18 ==
  (Encoded /\ VariantA /\ dto.applicant.present
     /\ dto.applicant.birthYear \notin {Undef, Null}) =>
    /\ IsNumber(input.value.age)
    /\ input.value.age.n >= MinAge * Scale

\* C11: when the applicant or its birthYear is absent (no value: undefined,
\* null, empty or zero) the age returned is 30; when the birthYear is present
\* and currentYear - birthYear >= 18 the age is exactly currentYear - birthYear.
NoBirthYear(d) ==
  \/ ~d.applicant.present
  \/ d.applicant.birthYear \in {Undef, Null, Str(<<>>), Whole(0)}

YearsSince(d, year) == Minus(Whole(year), ToNumber(d.applicant.birthYear))

C11_AgeDefaultOrExact ==
  (Encoded /\ VariantA) =>
    /\ NoBirthYear(dto) => input.value.age = Whole(30)
    /\ (~NoBirthYear(dto) /\ Geq(YearsSince(dto, currentYear), Whole(18))) =>
         input.value.age = YearsSince(dto, currentYear)

C11_Witness ==
  /\ Encoded
  /\ revision = "part_008"
  /\ dto.applicant.birthYear = YearString(FirstYear - 35)
  /\ input.value.age = Whole(currentYear - (FirstYear - 35))

\* C12, as claimed: a birthYear that yields an age below 18 gives the default
\* age 30.
BelowMinAge(d, year) ==
  /\ ~NoBirthYear(d)
  /\ YearsSince(d, year).t = "number"
  /\ YearsSince(d, year).n < 18 * Scale

C12_BelowMinGetsDefault ==
  (Encoded /\ VariantA /\ BelowMinAge(dto, currentYear)) =>
    input.value.age = Whole(30)

\* C12, amended: a birthYear that yields an age below 18 gives the age 18.
C12_BelowMinClamped ==
  (Encoded /\ VariantA /\ BelowMinAge(dto, currentYear)) =>
    input.value.age = Whole(18)

C12_Witness ==
  /\ Encoded
  /\ revision = "model.helper"
  /\ currentYear = FirstYear
  /\ dto.applicant.birthYear = Whole(FirstYear - 17)
  /\ input.value.age = Whole(18)

\* C13: two calls of mapDtoToModelInput on the same record return the same
\* feature record, whenever the two calls are made.
C13_EncoderDeterministic ==
  (VariantA /\ again.called) => again.outcome = input

\* C14: for every valid application record mapDtoToModelInput returns exactly
\* the keys age, income, veteran, benefits, num_people, disabled, the first
\* two and num_people numbers (not NaN, not undefined), the others booleans;
\* mapDtoToModelFeatures returns exactly the six Variant-B keys, each a number.
ValidBirthYear(b) ==
  \/ b \in {Undef, Null}
  \/ b.t \in {"number", "string"} /\ ToNumber(b).t = "number"

ValidProgram(e) ==
  /\ WellFormedProgram(e)
  /\ \/ e.options.kind = "undefined"
     \/ /\ e.options.kind = "array"
        /\ \A i \in DOMAIN e.options.items : WellFormedOption(e.options.items[i])

\* A record of the declared types: the birth year numeric, the household
\* members and programs lists of objects, the income a string.
ValidDto(d) ==
  /\ ~d.applicant.present \/ ValidBirthYear(d.applicant.birthYear)
  /\ \/ d.householdMember.kind = "undefined"
     \/ /\ d.householdMember.kind = "array"
        /\ \A i \in DOMAIN d.householdMember.members :
             d.householdMember.members[i].kind = "object"
  /\ \/ d.programs.kind = "undefined"
     \/ /\ d.programs.kind = "array"
        /\ \A i \in DOMAIN d.programs.entries : ValidProgram(d.programs.entries[i])
  /\ d.income \in {Undef, Null} \/ IsString(d.income)
  /\ d.incomeVouchers = Undef \/ IsBoolean(d.incomeVouchers)
  /\ d.householdSize = Undef \/ IsNumber(d.householdSize)

C14_FeatureRecordShape ==
  (pc # "start" /\ ValidDto(dto)) =>
    /\ revision = "model.helper" =>
         /\ ~input.threw
         /\ DOMAIN input.value =
              {"age", "income", "veteran", "benefits", "num_people", "disabled"}
         /\ IsNumber(input.value.age)
         /\ IsNumber(input.value.income)
         /\ IsNumber(input.value.num_people)
         /\ IsBoolean(input.value.veteran)
         /\ IsBoolean(input.value.benefits)
         /\ IsBoolean(input.value.disabled)
    /\ revision = "risk.dto" =>
         /\ ~input.threw
         /\ DOMAIN input.value =
              {"income", "household_size", "housing_status", "income_vouchers",
               "household_expecting_changes", "household_student"}
         /\ \A k \in DOMAIN input.value : IsNumber(input.value[k])

C14_Witness ==
  /\ Encoded
  /\ revision = "risk.dto"
  /\ ValidDto(dto)
  /\ dto.incomeVouchers = JsTrue
  /\ dto.householdSize = Whole(3)
  /\ input.value.income_vouchers = Whole(1)
  /\ input.value.household_size = Whole(3)

\* C15: mapDtoToModelFeatures gives income the number parsed from the income
\* string, not annualized (0 when absent or unparsable), household_size the
\* householdSize (1 when absent or 0), and each of income_vouchers,
\* household_expecting_changes, household_student 1 when its flag is set and
\* 0 otherwise; "$1,800", 3, "renting", true, false, true gives
\* {1800, 3, 1, 1, 0, 1}.
HasDigit(cs) == \E i \in DOMAIN cs : IsDigit(cs[i])
Amount(cs) == UnsignedToNumber(StripNonNumeric(cs))
OneIfSet(v) == IF v = JsTrue THEN Whole(1) ELSE Whole(0)

ExampleFeatures ==
  [income |-> Whole(1800), household_size |-> Whole(3), housing_status |-> Whole(1),
   income_vouchers |-> Whole(1), household_expecting_changes |-> Whole(0),
   household_student |-> Whole(1)]

IsExample(d) ==
  /\ d.income = Str(<<"$", "1", ",", "8", "0", "0">>)
  /\ d.householdSize = Whole(3)
  /\ d.housingStatus = Str(WordRenting)
  /\ d.incomeVouchers = JsTrue
  /\ d.householdExpectingChanges = JsFalse
  /\ d.householdStudent = JsTrue

C15_FeaturesMapped ==
  (Encoded /\ revision = "risk.dto") =>
    /\ IsNumber(input.value.income)
    /\ dto.income \in {Undef, Null} => input.value.income = Num(0)
    /\ (IsString(dto.income) /\ ~HasDigit(dto.income.s)) => input.value.income = Num(0)
    /\ (IsString(dto.income) /\ Amount(dto.income.s).t = "number") =>
         input.value.income = Amount(dto.income.s)
    /\ input.value.household_size =
         IF dto.householdSize \in {Undef, Null, Whole(0)} THEN Whole(1)
         ELSE dto.householdSize
    /\ input.value.income_vouchers = OneIfSet(dto.incomeVouchers)
    /\ input.value.household_expecting_changes = OneIfSet(dto.householdExpectingChanges)
    /\ input.value.household_student = OneIfSet(dto.householdStudent)
    /\ IsExample(dto) => input.value = ExampleFeatures

C15_Witness ==
  /\ Encoded
  /\ revision = "risk.dto"
  /\ IsExample(dto)
  /\ input.value = ExampleFeatures

\* C16: mapHousingStatus returns 0 for "homeless", 1 for "renting" and 2 for
\* "owning", for any other string and for a missing status; the result is
\* always one of 0, 1, 2.
C16_HousingStatusCode ==
  (Encoded /\ revision = "risk.dto") =>
    /\ input.value.housing_status \in {Whole(0), Whole(1), Whole(2)}
    /\ input.value.housing_status =
         IF dto.housingStatus = Str(<<"h", "o", "m", "e", "l", "e", "s", "s">>)
         THEN Whole(0)
         ELSE IF dto.housingStatus = Str(<<"r", "e", "n", "t", "i", "n", "g">>)
         THEN Whole(1)
         ELSE Whole(2)

C16_Witness ==
  /\ Encoded
  /\ revision = "risk.dto"
  /\ dto.housingStatus = Str(<<"R", "e", "n", "t", "i", "n", "g">>)
  /\ input.value.housing_status = Whole(2)

\* C17: in the adult_kids revisions, adult_kids is the number of household
\* members whose age (currentYear - birthYear) is between 18 and 21
\* inclusive; a member without a birthYear is not counted, and a missing
\* householdMember list gives 0.
MemberAge(m, year) == Minus(Whole(year), ToNumber(m.birthYear))

CountsAsAdultKid(m, year) ==
  /\ m.kind = "object"
  /\ m.birthYear \notin {Undef, Null}
  /\ MemberAge(m, year).t = "number"
  /\ 18 * Scale <= MemberAge(m, year).n
  /\ MemberAge(m, year).n <= 21 * Scale

ExpectedAdultKids(d, year) ==
  IF d.householdMember.kind = "undefined" THEN 0
  ELSE Cardinality({i \in DOMAIN d.householdMember.members :
                      CountsAsAdultKid(d.householdMember.members[i], year)})

C17_AdultKidsCount ==
  (Encoded /\ revision \in {"part_007", "part_008"}) =>
    input.value.adult_kids = Whole(ExpectedAdultKids(dto, currentYear))

\* C18: in the num_people revision, num_people is 1 + the number of household
\* members, 1 when householdMember is absent, and always an integer >= 1.
C18_NumPeople ==
  (Encoded /\ revision = "model.helper") =>
    /\ dto.householdMember.kind = "undefined" => input.value.num_people = Whole(1)
    /\ dto.householdMember.kind = "array" =>
         input.value.num_people = Whole(1 + Len(dto.householdMember.members))
    /\ IsNumber(input.value.num_people)
    /\ input.value.num_people.n >= Scale
    /\ input.value.num_people.n % Scale = 0

\* C19: in the revision that ORs benefits with the program claims, benefits
\* is true iff incomeVouchers is set or some program with claimed == true has
\* a key that contains, in any case, one of snap, section8, assistance; in
\* the other revisions benefits is the incomeVouchers flag alone.
AssistanceKeywords ==
  << <<"s", "n", "a", "p">>,
     <<"s", "e", "c", "t", "i", "o", "n", "8">>,
     <<"a", "s", "s", "i", "s", "t", "a", "n", "c", "e">> >>

ClaimsAssistance(programs) ==
  /\ programs.kind = "array"
  /\ \E i \in DOMAIN programs.entries :
       /\ programs.entries[i].kind = "object"
       /\ programs.entries[i].claimed = JsTrue
       /\ IsString(programs.entries[i].key)
       /\ \E k \in DOMAIN AssistanceKeywords :
            Includes(ToLowerCase(programs.entries[i].key.s), AssistanceKeywords[k])

C19_Benefits ==
  (Encoded /\ VariantA) =>
    input.value.benefits =
      IF revision = "part_008"
      THEN Bool(dto.incomeVouchers = JsTrue \/ ClaimsAssistance(dto.programs))
      ELSE Bool(dto.incomeVouchers = JsTrue)

\* C20: disabled is true iff at least one of the accessibility flags
\* mobility, vision, hearing is set; a missing accessibility object gives
\* false.
AnyAccessibilityFlag(d) ==
  /\ d.accessibility.present
  /\ JsTrue \in {d.accessibility.mobility, d.accessibility.vision,
                 d.accessibility.hearing}

C20_DisabledIffFlag ==
  (Encoded /\ VariantA) => input.value.disabled = Bool(AnyAccessibilityFlag(dto))

C20_Witness ==
  /\ Encoded
  /\ revision = "model.helper"
  /\ dto.accessibility.present
  /\ dto.accessibility.mobility = Undef
  /\ dto.accessibility.vision = JsFalse
  /\ dto.accessibility.hearing = JsTrue
  /\ input.value.disabled = JsTrue

\* C21: every field mapDtoToModelInput replaces by a default (missing
\* birthYear, missing or unparsable income, missing householdMember, programs
\* that is not an array, a malformed program entry) has a warning log entry,
\* and the call changes nothing but the log and its own result.
Warned(ws, field) == \E w \in ws : w.field = field

IncomeDefaulted(d) ==
  \/ d.income \in {Undef, Null}
  \/ StringToNumber(StripNonNumeric(JsString(d.income))).t = "NaN"

MalformedEntries(d) ==
  IF d.programs.kind # "array" THEN {}
  ELSE {i \in DOMAIN d.programs.entries : ~WellFormedProgram(d.programs.entries[i])}

DefaultsLogged(d, ws) ==
  /\ NoBirthYear(d) => Warned(ws, "birthYear")
  /\ IncomeDefaulted(d) => Warned(ws, "income")
  /\ d.householdMember.kind = "undefined" => Warned(ws, "householdMember")
  /\ d.programs.kind # "array" => Warned(ws, "programs")
  /\ \A i \in MalformedEntries(d) : Warning("programs", i) \in ws

C21_DefaultsAreLogged ==
  [][(revision = "model.helper" /\ pc = "start" /\ pc' = "mapped") =>
       /\ DefaultsLogged(dto, warnings')
       /\ UNCHANGED <<revision, dto, currentYear, thresholdArg, request, response,
                      result, error, storeVars, dashboardVars, pageVars>>]_vars

\* C22: after any sequence of application creations, risk insertions and
\* deletions, no two rows of the risk table carry the same application_id,
\* and every risk row references an existing application.
C22_OneRiskRowPerApplication ==
  /\ \A r1 \in riskRows : \A r2 \in riskRows :
       r1.application_id = r2.application_id => r1 = r2
  /\ \A r \in riskRows : r.application_id \in applicationRows

C22_Witness ==
  /\ lastInsert = "unique_violation"
  /\ Cardinality(riskRows) = 2
  /\ Cardinality(applicationRows) = 2
  /\ \E a \in DOMAIN deleted : deleted[a]

\* C23: deleting an application deletes its risk row in the same step: no
\* risk row exists whose application has been deleted, and the deletion
\* leaves the risk rows of the other applications unchanged.
C23_DeleteCascades ==
  /\ [](\A r \in riskRows : r.application_id \notin DOMAIN deleted)
  /\ [][\A a \in applicationRows \ applicationRows' :
          riskRows' = {r \in riskRows : r.application_id # a}]_vars

C23_Witness ==
  /\ \E a \in DOMAIN deleted : deleted[a]
  /\ riskRows # {}

\* C24: a risk row is immutable once created: no step changes the
\* probability, the prediction or the stored inputs of a row that stays in
\* the table.
C24_RiskRowImmutable ==
  [][\A r \in riskRows :
       \A q \in riskRows' :
         (q.id = r.id /\ q.application_id = r.application_id) => q.values = r.values]_vars

C24_Witness ==
  /\ lastInsert = "unique_violation"
  /\ \E r \in riskRows : r.values.risk_probability = Num(82)

\* The applications of the list that pass the listing, state and search
\* filters and carry a probability.
PassingWithProbability ==
  {i \in DOMAIN applications :
     /\ matchesListing(applications[i])
     /\ matchesState(applications[i])
     /\ matchesSearch(applications[i])
     /\ RiskOf(applications[i]).riskProbability.t = "number"}

Probability(i) == RiskOf(applications[i]).riskProbability.n

\* C25: each application that passes the filters and has a non-null
\* riskProbability is counted in exactly one bucket, low (p < 0.4), medium
\* (0.4 <= p < 0.7) or high (p >= 0.7), so low + medium + high is the number
\* of filtered applications; an application without risk data is counted in
\* no bucket and in no demographic total.
C25_BucketsPartitionFiltered ==
  LET passing == PassingWithProbability
      distribution == riskAnalytics.riskDistribution
      demographics == riskAnalytics.demographics
  IN  /\ distribution.low = Cardinality({i \in passing : Probability(i) < 40})
      /\ distribution.medium =
           Cardinality({i \in passing : Probability(i) >= 40 /\ Probability(i) < 70})
      /\ distribution.high = Cardinality({i \in passing : Probability(i) >= 70})
      /\ distribution.low + distribution.medium + distribution.high
           = Len(filteredApplications)
      /\ demographics.totalWithRisk = Cardinality(passing)
      /\ demographics.veteran =
           Cardinality({i \in passing : Truthy(RiskOf(applications[i]).veteran)})
      /\ demographics.disabled =
           Cardinality({i \in passing : Truthy(RiskOf(applications[i]).disabled)})
      /\ demographics.benefits =
           Cardinality({i \in passing : Truthy(RiskOf(applications[i]).benefits)})

\* A filtered dashboard whose three buckets are all counted, with an
\* application that passes the filters, has no probability and is a veteran.
C25_Witness ==
  /\ selectedListing # "all"
  /\ searchTerm # <<>>
  /\ riskAnalytics.riskDistribution.low > 0
  /\ riskAnalytics.riskDistribution.medium > 0
  /\ riskAnalytics.riskDistribution.high > 0
  /\ \E i \in DOMAIN applications :
       /\ matchesListing(applications[i])
       /\ matchesState(applications[i])
       /\ matchesSearch(applications[i])
       /\ RiskOf(applications[i]).riskProbability \in {Undef, Null}
       /\ Truthy(RiskOf(applications[i]).veteran)

\* C26: the risk level the table shows for an application is the level under
\* which the risk distribution counted it, for every application with risk
\* data, including one whose riskProbability is 0.
C26_TableLevelIsDistributionLevel ==
  LET rows == processedApplications
      apps == filteredApplications
  IN  \A k \in DOMAIN rows :
        \A i \in DOMAIN apps :
          rows[k].id = apps[i].id
            => rows[k].riskLevel = AnalyticsLevel(RiskOf(apps[i])).level

\* C27: after any sequence of Previous/Next clicks, filter changes, search
\* edits and sort clicks, currentPage stays between 1 and max(totalPages, 1),
\* and the page shown is never empty while the filtered applications are
\* non-empty.
C27_CurrentPageInRange ==
  /\ currentPage >= 1
  /\ currentPage <= (IF totalPages > 1 THEN totalPages ELSE 1)
  /\ (Len(filteredApplications) > 0 => Len(paginatedApplications) > 0)

\* C29: every application with a positive income is counted exactly once in
\* the income distribution, in the range that contains its income: 0-25k,
\* 25k-50k, 50k-75k, 75k-100k, or 100k+ for an income above 100,000.
C29_IncomeCountedInItsRange ==
  LET dollars(app) == RiskOf(app).income.n \div Scale
      positive == {i \in DOMAIN filteredApplications :
                     /\ RiskOf(filteredApplications[i]).income.t = "number"
                     /\ RiskOf(filteredApplications[i]).income.n > 0}
      within(lo, hi) ==
        Cardinality({i \in positive : /\ dollars(filteredApplications[i]) > lo
                                      /\ dollars(filteredApplications[i]) <= hi})
      incomeDistribution == riskAnalytics.incomeDistribution
  IN  /\ incomeDistribution["0-25k"] = within(0, 25000)
      /\ incomeDistribution["25k-50k"] = within(25000, 50000)
      /\ incomeDistribution["50k-75k"] = within(50000, 75000)
      /\ incomeDistribution["75k-100k"] = within(75000, 100000)
      /\ incomeDistribution["100k+"] =
           Cardinality({i \in positive : dollars(filteredApplications[i]) > 100000})

\* C28: the page that finds the label "At risk" stored shows the at-risk
\* resources, the page that finds "Not at Risk" stored shows the not-at-risk
\* resources, and the page that finds no label shows neither list.
C28_ListMatchesStoredLabel ==
  mounted =>
    /\ storedPrediction = LabelAtRisk => SupportiveServices = "atRiskResources"
    /\ storedPrediction = LabelNotAtRisk => SupportiveServices = "notAtRiskResources"
    /\ storedPrediction = Null => SupportiveServices = "none"

\* C30: after a search that completed with a non-empty result list, loading
\* is false and CustomResults renders one entry per result; "No results
\* found." appears only when a completed search returned no results; after
\* a failed search loading is false and the error message is shown.
C30_SearchOutcomeRendered ==
  /\ (~fetching /\ customResults.t = "array" /\ Len(customResults.s) > 0)
       => /\ ~loading
          /\ CustomResultsView.shows = "entries"
          /\ CustomResultsView.entries = customResults.s
  /\ CustomResultsView.shows = "No results found."
       => /\ ~loading
          /\ customResults.t = "array"
          /\ Len(customResults.s) = 0
  /\ (~fetching /\ searchError # Null) => ~loading /\ ErrorShown

====
